---------------------------- MODULE Spec2Model ----------------------------
(***************************************************************************)
(* gitlab-mr-commenter: post and idempotently update comments on GitLab    *)
(* merge requests.                                                         *)
(*                                                                         *)
(* Python strings are sequences of one-character strings, so that the      *)
(* marker's escaping, the substring test of the scan, line splitting and   *)
(* integer parsing are computed character by character as the code does.   *)
(* An Optional value is a record [set, v]: None has set = FALSE.           *)
(***************************************************************************)
EXTENDS Integers, Sequences, FiniteSets, TLC

(***************************************************************************)
(* Bounds of the model.                                                    *)
(***************************************************************************)
\* successful posts (remote writes) explored in one behaviour
MaxPosts == 3
\* page size of the collaborator's paginated note listing
PerPage == 2

(***************************************************************************)
(* Python values and built-ins.                                            *)
(***************************************************************************)
None == [set |-> FALSE, v |-> <<>>]
Str(s) == [set |-> TRUE, v |-> s]
NoInt == [set |-> FALSE, v |-> 0]
SomeInt(n) == [set |-> TRUE, v |-> n]

\* truthiness of an Optional[str]: None and "" are falsy
Truthy(x) == x.set /\ x.v # <<>>

\* Python's `a or b` on Optional[str] values
PyOr(a, b) == IF Truthy(a) THEN a ELSE b

\* `needle in hay` for str: the raw substring test
Contains(needle, hay) ==
  \E i \in 0..(Len(hay) - Len(needle)) :
     SubSeq(hay, i + 1, i + Len(needle)) = needle

EndsWith(s, suf) ==
  /\ Len(s) >= Len(suf)
  /\ SubSeq(s, Len(s) - Len(suf) + 1, Len(s)) = suf

\* str.removesuffix
removesuffix(s, suf) ==
  IF suf # <<>> /\ EndsWith(s, suf) THEN SubSeq(s, 1, Len(s) - Len(suf)) ELSE s

\* str.format with one "{}" replacement field
Format(tpl, arg) ==
  LET holes == {i \in 1..(Len(tpl) - 1) : tpl[i] = "{" /\ tpl[i + 1] = "}"}
      i == CHOOSE h \in holes : \A g \in holes : h <= g
  IN  IF holes = {} THEN tpl
      ELSE SubSeq(tpl, 1, i - 1) \o arg \o SubSeq(tpl, i + 2, Len(tpl))

\* json.dumps escaping of one character (ensure_ascii, ASCII alphabet)
\* an encoder that escapes nothing
EscapeCharRaw(c) == <<c>>

EscapeChar(c) ==
  CASE c = "\"" -> <<"\\", "\"">>
    [] c = "\\" -> <<"\\", "\\">>
    [] c = "\n" -> <<"\\", "n">>
    [] c = "\r" -> <<"\\", "r">>
    [] c = "\t" -> <<"\\", "t">>
    [] OTHER -> <<c>>

RECURSIVE EscapeAll(_)
EscapeAll(s) ==
  IF s = <<>> THEN <<>> ELSE EscapeChar(Head(s)) \o EscapeAll(Tail(s))

\* json.dumps of a str: a double-quoted, backslash-escaped literal
json_dumps(s) == <<"\"">> \o EscapeAll(s) \o <<"\"">>

IsBreak(c) == c = "\n" \/ c = "\r"

\* str.splitlines: breaks at \n, \r and \r\n; no trailing empty line
RECURSIVE splitlines(_)
splitlines(s) ==
  IF s = <<>> THEN <<>>
  ELSE LET brk == {i \in 1..Len(s) : IsBreak(s[i])}
           k == IF brk = {} THEN Len(s) + 1
                ELSE CHOOSE i \in brk : \A j \in brk : i <= j
           nxt == IF k > Len(s) THEN k
                  ELSE IF s[k] = "\r" /\ k < Len(s) /\ s[k + 1] = "\n"
                       THEN k + 2 ELSE k + 1
       IN  <<SubSeq(s, 1, k - 1)>> \o splitlines(SubSeq(s, nxt, Len(s)))

IsSpace(c) == c \in {" ", "\t", "\n", "\r"}

Digits == <<"0", "1", "2", "3", "4", "5", "6", "7", "8", "9">>

IsDigit(c) == \E d \in 1..10 : Digits[d] = c

DigitVal(c) == (CHOOSE d \in 1..10 : Digits[d] = c) - 1

RECURSIVE Strip(_)
Strip(s) ==
  IF s = <<>> THEN s
  ELSE IF IsSpace(Head(s)) THEN Strip(Tail(s))
  ELSE IF IsSpace(s[Len(s)]) THEN Strip(SubSeq(s, 1, Len(s) - 1))
  ELSE s

RECURSIVE DigitsVal(_)
DigitsVal(s) ==
  IF s = <<>> THEN 0
  ELSE 10 * DigitsVal(SubSeq(s, 1, Len(s) - 1)) + DigitVal(s[Len(s)])

RECURSIVE OnlyDigits(_)
OnlyDigits(s) ==
  IF s = <<>> THEN <<>>
  ELSE IF IsDigit(Head(s)) THEN <<Head(s)>> \o OnlyDigits(Tail(s))
  ELSE OnlyDigits(Tail(s))

\* a conversion that reads the digits of the text and skips everything else
intLenient(raw) ==
  IF OnlyDigits(raw) = <<>> THEN [ok |-> FALSE, v |-> 0]
  ELSE [ok |-> TRUE, v |-> DigitsVal(OnlyDigits(raw))]

\* int(raw) for a str: surrounding whitespace, an optional sign, decimal
\* digits; anything else raises ValueError (ok = FALSE)
int(raw) ==
  LET s == Strip(raw)
      signed == s # <<>> /\ Head(s) \in {"+", "-"}
      body == IF signed THEN Tail(s) ELSE s
      valid == body # <<>> /\ \A i \in 1..Len(body) : IsDigit(body[i])
  IN  IF ~valid THEN [ok |-> FALSE, v |-> 0]
      ELSE [ok |-> TRUE,
            v |-> IF signed /\ Head(s) = "-" THEN 0 - DigitsVal(body)
                  ELSE DigitsVal(body)]

(***************************************************************************)
(* Marker codec.                                                           *)
(***************************************************************************)
\* "<!-- gitlab-mr-commenter id={} -->"
COMMENT_IDENTIFIER ==
  <<"<", "!", "-", "-", " ", "g", "i", "t", "l", "a", "b", "-", "m", "r",
    "-", "c", "o", "m", "m", "e", "n", "t", "e", "r", " ", "i", "d", "=",
    "{", "}", " ", "-", "-", ">">>

_marker(comment_id) == Format(COMMENT_IDENTIFIER, json_dumps(comment_id))

\* a body with the marker first
BodyMarkerFirst(content, marker) == marker \o <<"\n", "\n">> \o content

\* f"{content}\n\n{marker}"
Body(content, marker) == content \o <<"\n", "\n">> \o marker

(***************************************************************************)
(* The world: the process environment and the remote collaborator.         *)
(***************************************************************************)
Procs == {1, 2}

EnvVars == {"CI_API_V4_URL", "GITLAB_MR_PLAN_TOKEN", "GITLAB_TOKEN",
            "CI_PROJECT_ID", "CI_MERGE_REQUEST_IID"}

\* the (project id, MR iid) pairs that exist on the remote instance
Targets == {<<7, 1>>, <<7, 2>>}

ProjectExists(project_id) == \E t \in Targets : t[1] = project_id

VARIABLES
  environ,  \* os.environ: variable name -> Optional[str]
  order,    \* the collaborator's listing order: "asc" (oldest first) or "desc"
  notes,    \* remote notes of each MR, in the order the listing yields them
  hist,     \* history: the successful posts per MR, as <<comment_id, content>>
  gl,       \* per engine: self._gl (unbuilt, raised, none, or a client)
  ctor,     \* per engine: the constructor call's arguments and environment
  pc,       \* per engine: position of the current post invocation
  frame,    \* per engine: arguments and locals of the current / last post
  err,      \* per engine: the exception raised by the last call, or "none"
  out,      \* per engine: lines printed to stdout by the last post
  calls,    \* per engine: remote calls issued by the current / last post
  cli       \* per process: the command-line run wrapped around the engine

vars == <<environ, order, notes, hist, gl, ctor, pc, frame, err, out, calls, cli>>

Unbuilt == [kind |-> "unbuilt", url |-> <<>>, token |-> <<>>]
Raised == [kind |-> "raised", url |-> <<>>, token |-> <<>>]
NoneGl == [kind |-> "none", url |-> <<>>, token |-> <<>>]
Gitlab(url, private_token) == [kind |-> "client", url |-> url, token |-> private_token]

NoCtor == [token |-> None, api_url |-> None, local_fallback |-> FALSE,
           env_url |-> None, env_plan_token |-> None, env_token |-> None]

NoFrame == [content |-> <<>>, project_id |-> NoInt, mr_iid |-> NoInt,
            comment_id |-> <<>>, raw_project |-> None, raw_mr |-> None,
            pid |-> 0, iid |-> 0, marker |-> <<>>, body |-> <<>>,
            page |-> 0, pulled |-> 0, note |-> 0, start |-> 0]

\* a process that is not running the command line
NoCli == [state |-> "none", content |-> <<>>, status |-> 0, stderr |-> <<>>]

ErrNoUrl == "ValueError: No GitLab API URL found"
ErrNoToken == "ValueError: No GitLab token found"
ErrNoProject == "ValueError: project_id not provided and CI_PROJECT_ID is not set"
ErrNoMr == "ValueError: mr_iid not provided and CI_MERGE_REQUEST_IID is not set"
ErrInt == "ValueError: invalid literal for int()"
ErrNotFound == "GitlabGetError: 404"
ErrTransport == "ConnectionError"

ConfigErrors == {ErrNoUrl, ErrNoToken, ErrNoProject, ErrNoMr, ErrInt}

Sum(f, S) ==
  LET RECURSIVE Acc(_)
      Acc(T) == IF T = {} THEN 0
                ELSE LET x == CHOOSE y \in T : TRUE IN f[x] + Acc(T \ {x})
  IN  Acc(S)

InFlight == {"get_project", "get_mr", "list", "save", "create"}

\* remote writes completed or still possible in this behaviour
PostsUsed ==
  Sum([t \in Targets |-> Len(hist[t])], Targets)
    + Cardinality({p \in Procs : pc[p] \in InFlight})

NoteCount == Sum([t \in Targets |-> Len(notes[t])], Targets)

\* remote writes completed so far, over all merge requests
Writes == Sum([t \in Targets |-> Len(hist[t])], Targets)

(***************************************************************************)
(* MRCommenter.__init__                                                    *)
(***************************************************************************)
\* a constructor in which local_fallback wins over a resolvable API URL
MRCommenterLocalFirst(token, api_url, local_fallback, env) ==
  LET resolved_url == PyOr(api_url, env["CI_API_V4_URL"])
      resolved_token == PyOr(PyOr(token, env["GITLAB_MR_PLAN_TOKEN"]),
                             env["GITLAB_TOKEN"])
      instance_url == removesuffix(resolved_url.v, <<"/", "a", "p", "i", "/", "v", "4">>)
  IN  IF local_fallback THEN [gl |-> NoneGl, err |-> "none"]
      ELSE IF ~Truthy(resolved_url) THEN [gl |-> Raised, err |-> ErrNoUrl]
      ELSE IF ~Truthy(resolved_token) THEN [gl |-> Raised, err |-> ErrNoToken]
      ELSE [gl |-> Gitlab(instance_url, resolved_token.v), err |-> "none"]

\* a constructor that prefers the deprecated token variable
MRCommenterAliasFirst(token, api_url, local_fallback, env) ==
  LET resolved_url == PyOr(api_url, env["CI_API_V4_URL"])
      resolved_token == PyOr(PyOr(token, env["GITLAB_TOKEN"]),
                             env["GITLAB_MR_PLAN_TOKEN"])
      instance_url == removesuffix(resolved_url.v, <<"/", "a", "p", "i", "/", "v", "4">>)
  IN  IF ~Truthy(resolved_url)
      THEN IF ~local_fallback THEN [gl |-> Raised, err |-> ErrNoUrl]
           ELSE [gl |-> NoneGl, err |-> "none"]
      ELSE IF ~Truthy(resolved_token) THEN [gl |-> Raised, err |-> ErrNoToken]
      ELSE [gl |-> Gitlab(instance_url, resolved_token.v), err |-> "none"]

\* a constructor that builds the client without checking the token
MRCommenterNoTokenCheck(token, api_url, local_fallback, env) ==
  LET resolved_url == PyOr(api_url, env["CI_API_V4_URL"])
      resolved_token == PyOr(PyOr(token, env["GITLAB_MR_PLAN_TOKEN"]),
                             env["GITLAB_TOKEN"])
      instance_url == removesuffix(resolved_url.v, <<"/", "a", "p", "i", "/", "v", "4">>)
  IN  IF ~Truthy(resolved_url)
      THEN IF ~local_fallback THEN [gl |-> Raised, err |-> ErrNoUrl]
           ELSE [gl |-> NoneGl, err |-> "none"]
      ELSE [gl |-> Gitlab(instance_url, resolved_token.v), err |-> "none"]

\* the result of the constructor: self._gl and the exception raised, if any
MRCommenter(token, api_url, local_fallback, env) ==
  LET resolved_url == PyOr(api_url, env["CI_API_V4_URL"])
      resolved_token == PyOr(PyOr(token, env["GITLAB_MR_PLAN_TOKEN"]),
                             env["GITLAB_TOKEN"])
      instance_url == removesuffix(resolved_url.v, <<"/", "a", "p", "i", "/", "v", "4">>)
  IN  IF ~Truthy(resolved_url)
      THEN IF ~local_fallback THEN [gl |-> Raised, err |-> ErrNoUrl]
           ELSE [gl |-> NoneGl, err |-> "none"]
      ELSE IF ~Truthy(resolved_token) THEN [gl |-> Raised, err |-> ErrNoToken]
      ELSE [gl |-> Gitlab(instance_url, resolved_token.v), err |-> "none"]

Construct(p, token, api_url, local_fallback) ==
  /\ gl[p].kind = "unbuilt"
  /\ LET r == MRCommenter(token, api_url, local_fallback, environ)
     IN  /\ gl' = [gl EXCEPT ![p] = r.gl]
         /\ err' = [err EXCEPT ![p] = r.err]
  /\ ctor' = [ctor EXCEPT ![p] =
                [token |-> token, api_url |-> api_url,
                 local_fallback |-> local_fallback,
                 env_url |-> environ["CI_API_V4_URL"],
                 env_plan_token |-> environ["GITLAB_MR_PLAN_TOKEN"],
                 env_token |-> environ["GITLAB_TOKEN"]]]
  /\ UNCHANGED <<cli, environ, order, notes, hist, pc, frame, out, calls>>

(***************************************************************************)
(* MRCommenter.post, up to its first remote call                           *)
(***************************************************************************)
\* a local mode that returns after the first line
LocalOutputFirst(content) ==
  LET lines == splitlines(content)
  IN  IF lines = <<>> THEN <<>>
      ELSE << <<"=", "=", " ", "M", "e", "r", "g", "e", " ", "r", "e", "q",
                "u", "e", "s", "t", " ", "o", "u", "t", "p", "u", "t", ":",
                " ", "=", "=">>,
              <<"#", "#", " ">> \o lines[1] >>

\* lines 160-162: what local mode prints for `content`
LocalOutput(content) ==
  LET lines == splitlines(content)
      RECURSIVE Emit(_)
      Emit(k) ==
        IF k > Len(lines) THEN <<>>
        ELSE << <<"=", "=", " ", "M", "e", "r", "g", "e", " ", "r", "e", "q",
                  "u", "e", "s", "t", " ", "o", "u", "t", "p", "u", "t", ":",
                  " ", "=", "=">>,
                <<"#", "#", " ">> \o lines[k] >> \o Emit(k + 1)
  IN  Emit(1)

\* a resolution whose environment lookup defaults to "0" instead of ""
ResolveIdDefault(arg, raw, missing) ==
  IF arg.set THEN [ok |-> TRUE, v |-> arg.v, err |-> "none"]
  ELSE LET r == IF raw.set THEN raw.v ELSE <<"0">>
           n == int(r)
       IN  IF r = <<>> THEN [ok |-> FALSE, v |-> 0, err |-> missing]
           ELSE IF ~n.ok THEN [ok |-> FALSE, v |-> 0, err |-> ErrInt]
           ELSE [ok |-> TRUE, v |-> n.v, err |-> "none"]

\* lines 165-179: an id argument, else the environment variable, else an error
ResolveId(arg, raw, missing) ==
  IF arg.set THEN [ok |-> TRUE, v |-> arg.v, err |-> "none"]
  ELSE LET r == IF raw.set THEN raw.v ELSE <<>>
           n == int(r)
       IN  IF r = <<>> THEN [ok |-> FALSE, v |-> 0, err |-> missing]
           ELSE IF ~n.ok THEN [ok |-> FALSE, v |-> 0, err |-> ErrInt]
           ELSE [ok |-> TRUE, v |-> n.v, err |-> "none"]

Post(p, content, project_id, mr_iid, comment_id) ==
  /\ gl[p].kind \in {"none", "client"}
  /\ pc[p] \notin InFlight
  /\ PostsUsed < MaxPosts
  /\ LET raw_project == environ["CI_PROJECT_ID"]
         raw_mr == environ["CI_MERGE_REQUEST_IID"]
         f0 == [NoFrame EXCEPT !.content = content, !.project_id = project_id,
                               !.mr_iid = mr_iid, !.comment_id = comment_id,
                               !.raw_project = raw_project, !.raw_mr = raw_mr,
                               !.start = Writes]
         rp == ResolveId(project_id, raw_project, ErrNoProject)
         rm == ResolveId(mr_iid, raw_mr, ErrNoMr)
         marker == _marker(comment_id)
     IN  /\ calls' = [calls EXCEPT ![p] = <<>>]
         /\ IF gl[p].kind = "none"
            THEN /\ out' = [out EXCEPT ![p] = LocalOutput(content)]
                 /\ pc' = [pc EXCEPT ![p] = "done"]
                 /\ err' = [err EXCEPT ![p] = "none"]
                 /\ frame' = [frame EXCEPT ![p] = f0]
            ELSE /\ out' = [out EXCEPT ![p] = <<>>]
                 /\ IF ~rp.ok
                    THEN /\ pc' = [pc EXCEPT ![p] = "raised"]
                         /\ err' = [err EXCEPT ![p] = rp.err]
                         /\ frame' = [frame EXCEPT ![p] = f0]
                    ELSE IF ~rm.ok
                    THEN /\ pc' = [pc EXCEPT ![p] = "raised"]
                         /\ err' = [err EXCEPT ![p] = rm.err]
                         /\ frame' = [frame EXCEPT ![p] = [f0 EXCEPT !.pid = rp.v]]
                    ELSE /\ pc' = [pc EXCEPT ![p] = "get_project"]
                         /\ err' = [err EXCEPT ![p] = "none"]
                         /\ frame' = [frame EXCEPT ![p] =
                                        [f0 EXCEPT !.pid = rp.v, !.iid = rm.v,
                                                   !.marker = marker,
                                                   !.body = Body(content, marker)]]
  /\ UNCHANGED <<cli, environ, order, notes, hist, gl, ctor>>

(***************************************************************************)
(* MRCommenter.post: the remote calls.  Each is one blocking step.         *)
(***************************************************************************)
Target(p) == <<frame[p].pid, frame[p].iid>>

Called(p, name) == calls' = [calls EXCEPT ![p] = Append(calls[p], name)]

Raise(p, e) ==
  /\ pc' = [pc EXCEPT ![p] = "raised"]
  /\ err' = [err EXCEPT ![p] = e]

\* line 184: self._gl.projects.get(project_id)
GetProject(p) ==
  /\ pc[p] = "get_project"
  /\ Called(p, "get_project")
  /\ IF ProjectExists(frame[p].pid)
     THEN pc' = [pc EXCEPT ![p] = "get_mr"] /\ UNCHANGED err
     ELSE Raise(p, ErrNotFound)
  /\ UNCHANGED <<cli, environ, order, notes, hist, gl, ctor, frame, out>>

\* line 185: project.mergerequests.get(mr_iid)
GetMR(p) ==
  /\ pc[p] = "get_mr"
  /\ Called(p, "get_mr")
  /\ IF Target(p) \in Targets
     THEN /\ pc' = [pc EXCEPT ![p] = "list"]
          /\ frame' = [frame EXCEPT ![p].page = 1]
          /\ UNCHANGED err
     ELSE Raise(p, ErrNotFound) /\ UNCHANGED frame
  /\ UNCHANGED <<cli, environ, order, notes, hist, gl, ctor, out>>

\* a listing materialised whole by its first request
PageItemsAll(all, page) == all

\* one page of the collaborator's listing
PageItems(all, page) ==
  SubSeq(all, (page - 1) * PerPage + 1,
         IF page * PerPage < Len(all) THEN page * PerPage ELSE Len(all))

\* a listing that never reports a further page
HasNextNever(all, page) == FALSE

HasNext(all, page) == Len(all) > page * PerPage

\* a scan that keeps the last match of the page
ScanLast(marker, items) ==
  LET hits == {i \in 1..Len(items) : Contains(marker, items[i].body)}
  IN  IF hits = {} THEN 0 ELSE CHOOSE i \in hits : \A j \in hits : i >= j

\* a scan that matches on the marker's fixed prefix, up to the slot name
ScanPrefix(marker, items) ==
  LET quotes == {i \in 1..Len(marker) : marker[i] = "\""}
      stem == SubSeq(marker, 1, (CHOOSE i \in quotes : \A j \in quotes : i <= j) - 1)
      hits == {i \in 1..Len(items) : Contains(stem, items[i].body)}
  IN  IF hits = {} THEN 0 ELSE CHOOSE i \in hits : \A j \in hits : i <= j

\* a scan that compares the whole body with the marker
ScanExact(marker, items) ==
  LET hits == {i \in 1..Len(items) : items[i].body = marker}
  IN  IF hits = {} THEN 0 ELSE CHOOSE i \in hits : \A j \in hits : i <= j

\* lines 188-189: index of the first note of `items` whose body contains the
\* marker, or 0
Scan(marker, items) ==
  LET hits == {i \in 1..Len(items) : Contains(marker, items[i].body)}
  IN  IF hits = {} THEN 0 ELSE CHOOSE i \in hits : \A j \in hits : i <= j

\* line 188: the iterator fetches one page; the loop body tests its notes
ListPage(p) ==
  /\ pc[p] = "list"
  /\ Called(p, "list")
  /\ LET all == notes[Target(p)]
         items == PageItems(all, frame[p].page)
         k == Scan(frame[p].marker, items)
     IN  IF k # 0
         THEN /\ pc' = [pc EXCEPT ![p] = "save"]
              /\ frame' = [frame EXCEPT ![p].note = items[k].id,
                                        ![p].pulled = @ + k]
         ELSE IF HasNext(all, frame[p].page)
         THEN /\ frame' = [frame EXCEPT ![p].page = @ + 1,
                                        ![p].pulled = @ + Len(items)]
              /\ UNCHANGED pc
         ELSE /\ pc' = [pc EXCEPT ![p] = "create"]
              /\ frame' = [frame EXCEPT ![p].pulled = @ + Len(items)]
  /\ UNCHANGED <<cli, environ, order, notes, hist, gl, ctor, err, out>>

Posted(p) ==
  hist' = [hist EXCEPT ![Target(p)] =
             Append(@, <<frame[p].comment_id, frame[p].content>>)]

\* an update that also removes the other notes carrying the body's marker
UpdatedHeal(all, id, body) ==
  LET starts == {i \in 1..(Len(body) - 3) :
                   SubSeq(body, i, i + 3) = <<"<", "!", "-", "-">>}
      last == CHOOSE i \in starts : \A j \in starts : i >= j
      mk == SubSeq(body, last, Len(body))
      keep(n) == n.id = id \/ ~Contains(mk, n.body)
      kept == SelectSeq(all, keep)
  IN  [i \in 1..Len(kept) |-> IF kept[i].id = id THEN [kept[i] EXCEPT !.body = body]
                              ELSE kept[i]]

\* an update that rewrites every note of the listing
UpdatedAll(all, id, body) == [i \in 1..Len(all) |-> [all[i] EXCEPT !.body = body]]

\* the notes of an MR after note `id` got body `body`
Updated(all, id, body) ==
  [i \in 1..Len(all) |-> IF all[i].id = id THEN [all[i] EXCEPT !.body = body]
                         ELSE all[i]]

\* lines 190-192: note.body = body; note.save()
Save(p) ==
  /\ pc[p] = "save"
  /\ Called(p, "save")
  /\ notes' = [notes EXCEPT ![Target(p)] =
                 Updated(@, frame[p].note, frame[p].body)]
  /\ Posted(p)
  /\ pc' = [pc EXCEPT ![p] = "done"]
  /\ UNCHANGED <<cli, environ, order, gl, ctor, frame, err, out>>

\* a collaborator that drops a create whose body some note already has
InsertedDedup(all, new, ord) ==
  IF \E i \in 1..Len(all) : all[i].body = new.body THEN all
  ELSE IF ord = "asc" THEN Append(all, new) ELSE <<new>> \o all

\* the listing of an MR after a new note was created
Inserted(all, new, ord) ==
  IF ord = "asc" THEN Append(all, new) ELSE <<new>> \o all

\* line 195: mr.notes.create({"body": body})
Create(p) ==
  /\ pc[p] = "create"
  /\ Called(p, "create")
  /\ notes' = [notes EXCEPT ![Target(p)] =
                 Inserted(@, [id |-> NoteCount + 1, body |-> frame[p].body], order)]
  /\ Posted(p)
  /\ pc' = [pc EXCEPT ![p] = "done"]
  /\ UNCHANGED <<cli, environ, order, gl, ctor, frame, err, out>>

\* a failed listing request taken for an empty listing: post goes on to create
FailSwallow(p) ==
  /\ pc[p] \in InFlight
  /\ Called(p, pc[p])
  /\ err' = [err EXCEPT ![p] = ErrTransport]
  /\ pc' = [pc EXCEPT ![p] = IF pc[p] = "list" THEN "create" ELSE "raised"]
  /\ UNCHANGED <<cli, environ, order, notes, hist, gl, ctor, frame, out>>

\* a failed request that is issued again
FailRetry(p) ==
  /\ pc[p] \in InFlight
  /\ Called(p, pc[p])
  /\ UNCHANGED <<cli, environ, order, notes, hist, gl, ctor, pc, frame, err, out>>

\* any remote call may fail in transport; the request then has no effect and
\* the exception propagates out of post
Fail(p) ==
  /\ pc[p] \in InFlight
  /\ Called(p, pc[p])
  /\ Raise(p, ErrTransport)
  /\ UNCHANGED <<cli, environ, order, notes, hist, gl, ctor, frame, out>>

(***************************************************************************)
(* __main__.main: the command line                                         *)
(***************************************************************************)
\* the message of parser.error (its dash is an em dash in the source)
ErrStdin == "stdin is empty - nothing to post."

Exited(status, stderr) ==
  [state |-> "exited", content |-> <<>>, status |-> status, stderr |-> stderr]

\* lines 96-100: content = sys.stdin.read(); parser.error when it is blank
MainRead(p, content) ==
  /\ cli[p].state = "none"
  /\ gl[p].kind = "unbuilt"
  /\ cli' = [cli EXCEPT ![p] =
               IF Strip(content) = <<>>
               THEN Exited(2, <<"error: ", ErrStdin>>)
               ELSE [NoCli EXCEPT !.state = "running", !.content = content]]
  /\ UNCHANGED <<environ, order, notes, hist, gl, ctor, pc, frame, err, out, calls>>

\* line 103: MRCommenter(token=args.token, api_url=args.api_url)
MainConstruct(p, token, api_url) ==
  /\ cli[p].state = "running"
  /\ Construct(p, token, api_url, FALSE)

\* lines 103-108: .post(content, project_id=..., mr_iid=..., comment_id=...)
MainPost(p, project_id, mr_iid, comment_id) ==
  /\ cli[p].state = "running"
  /\ pc[p] = "idle"
  /\ Post(p, cli[p].content, project_id, mr_iid, comment_id)

\* an exit that reports success whatever happened
MainExitZero(p) ==
  /\ cli[p].state = "running"
  /\ gl[p].kind = "raised" \/ pc[p] \in {"raised", "done"}
  /\ cli' = [cli EXCEPT ![p] = Exited(0, <<>>)]
  /\ UNCHANGED <<environ, order, notes, hist, gl, ctor, pc, frame, err, out, calls>>

\* lines 109-111 and the normal return of main: an exception of the
\* constructor or of post is printed to stderr and the exit status is 1
MainExit(p) ==
  /\ cli[p].state = "running"
  /\ gl[p].kind = "raised" \/ pc[p] \in {"raised", "done"}
  /\ cli' = [cli EXCEPT ![p] =
               IF gl[p].kind = "raised" \/ pc[p] = "raised"
               THEN Exited(1, <<"error: ", err[p]>>)
               ELSE Exited(0, <<>>)]
  /\ UNCHANGED <<environ, order, notes, hist, gl, ctor, pc, frame, err, out, calls>>

\* the host process changes os.environ between calls
Setenv(name, value) ==
  /\ environ[name] # value
  /\ environ' = [environ EXCEPT ![name] = value]
  /\ UNCHANGED <<cli, order, notes, hist, gl, ctor, pc, frame, err, out, calls>>

(***************************************************************************)
(* Inputs and specifications.                                              *)
(***************************************************************************)
Url == <<"h", "/", "a", "p", "i", "/", "v", "4">>
Token == <<"t">>

SlotA == <<"a">>
SlotB == <<"b", "\"">>
Slots == {SlotA, SlotB}

\* plain contents, and a content that quotes the marker of slot a
Contents == {<<"x">>, <<"y">>, _marker(SlotA)}

CiEnv == [n \in EnvVars |->
            CASE n = "CI_API_V4_URL" -> Str(Url)
              [] n = "GITLAB_MR_PLAN_TOKEN" -> Str(Token)
              [] n = "GITLAB_TOKEN" -> None
              [] n = "CI_PROJECT_ID" -> Str(<<"7">>)
              [] n = "CI_MERGE_REQUEST_IID" -> Str(<<"1">>)]

\* MR 1 of project 7 starts with two comments written by people, MR 2 empty
InitialNotes ==
  [t \in Targets |->
     IF t = <<7, 1>>
     THEN <<[id |-> 1, body |-> <<"l", "g", "t", "m">>],
            [id |-> 2, body |-> <<"o", "k">>]>>
     ELSE <<>>]

InitWith(envs, orders) ==
  /\ environ \in envs
  /\ order \in orders
  /\ notes = InitialNotes
  /\ hist = [t \in Targets |-> <<>>]
  /\ gl = [p \in Procs |-> Unbuilt]
  /\ ctor = [p \in Procs |-> NoCtor]
  /\ pc = [p \in Procs |-> "idle"]
  /\ frame = [p \in Procs |-> NoFrame]
  /\ err = [p \in Procs |-> "none"]
  /\ out = [p \in Procs |-> <<>>]
  /\ calls = [p \in Procs |-> <<>>]
  /\ cli = [p \in Procs |-> NoCli]

Remote(p) ==
  \/ GetProject(p)
  \/ GetMR(p)
  \/ ListPage(p)
  \/ Save(p)
  \/ Create(p)
  \/ Fail(p)

\* MR 1 of project 7 (its iid taken from the environment), a missing MR and a
\* missing project
UpsertTargets == {<<SomeInt(7), NoInt>>, <<SomeInt(7), SomeInt(3)>>,
                  <<SomeInt(8), NoInt>>}

\* The upsert protocol: one engine, built from the CI environment, posting
\* sequentially to existing and missing targets.
Init == InitWith({CiEnv}, {"asc", "desc"})

Next ==
  \/ Construct(1, None, None, FALSE)
  \/ \E content \in Contents, comment_id \in Slots, target \in UpsertTargets :
       Post(1, content, target[1], target[2], comment_id)
  \/ Remote(1)

Spec == Init /\ [][Next]_vars

\* Construction and local mode: one engine built from every combination of
\* explicit arguments and environment, the environment changing between calls.
Url2 == <<"g">>

CtorEnvs ==
  {[CiEnv EXCEPT !["CI_API_V4_URL"] = u, !["GITLAB_MR_PLAN_TOKEN"] = t1,
                 !["GITLAB_TOKEN"] = t2, !["CI_PROJECT_ID"] = pr] :
     u \in {None, Str(<<>>), Str(Url)}, t1 \in {None, Str(Token)},
     t2 \in {None, Str(<<"o">>)}, pr \in {None, Str(<<"7">>)}}

\* "p\nq" and "r\r\ns\n"
LocalContents == {<<"p", "\n", "q">>, <<"r", "\r", "\n", "s", "\n">>}

InitCtor == InitWith(CtorEnvs, {"asc"})

NextCtor ==
  \/ \E token \in {None, Str(<<>>), Str(<<"k">>)},
        api_url \in {None, Str(<<>>), Str(Url2)},
        local_fallback \in BOOLEAN :
       Construct(1, token, api_url, local_fallback)
  \/ \E content \in LocalContents,
        target \in {<<NoInt, NoInt>>, <<SomeInt(7), SomeInt(1)>>} :
       Post(1, content, target[1], target[2], SlotA)
  \/ Remote(1)
  \/ \E value \in {None, Str(Url)} : Setenv("CI_API_V4_URL", value)

SpecCtor == InitCtor /\ [][NextCtor]_vars

\* Target resolution: one engine in remote mode, the ids passed explicitly or
\* taken from every kind of environment value.
TargetEnvs ==
  {[CiEnv EXCEPT !["CI_PROJECT_ID"] = pr, !["CI_MERGE_REQUEST_IID"] = mr] :
     pr \in {None, Str(<<>>), Str(<<"7">>), Str(<<" ", "7">>), Str(<<"7", "x">>),
             Str(<<"0">>), Str(<<"-", "3">>)},
     mr \in {None, Str(<<>>), Str(<<"2">>), Str(<<"a">>), Str(<<"0">>)}}

InitTarget == InitWith(TargetEnvs, {"asc", "desc"})

NextTarget ==
  \/ Construct(1, Str(Token), Str(Url), FALSE)
  \/ \E project_id \in {NoInt, SomeInt(7), SomeInt(0), SomeInt(-1)},
        mr_iid \in {NoInt, SomeInt(1), SomeInt(0)} :
       Post(1, <<"x">>, project_id, mr_iid, SlotA)
  \/ Remote(1)

SpecTarget == InitTarget /\ [][NextTarget]_vars

(***************************************************************************)
(* Two engines in two processes (two CI jobs of one merge request) post    *)
(* against the same MR with nothing coordinating them: their remote calls  *)
(* interleave freely.                                                      *)
(***************************************************************************)
\* the posts of the two jobs: content and slot
ConcPosts == {<<<<"x">>, SlotA>>, <<<<"x">>, SlotB>>, <<_marker(SlotA), SlotB>>}

InitConc == InitWith({CiEnv}, {"asc", "desc"})

NextConc ==
  \/ \E p \in Procs : Construct(p, None, None, FALSE)
  \/ \E p \in Procs, post \in ConcPosts : Post(p, post[1], NoInt, NoInt, post[2])
  \/ \E p \in Procs : GetProject(p)
  \/ \E p \in Procs : GetMR(p)
  \/ \E p \in Procs : ListPage(p)
  \/ \E p \in Procs : Save(p)
  \/ \E p \in Procs : Create(p)

SpecConc == InitConc /\ [][NextConc]_vars

(***************************************************************************)
(* Runs of the command line, python -m gitlab_mr_commenter, one per        *)
(* process                                                                 *)
(***************************************************************************)
CliStdin == {<<>>, <<" ", "\n">>, <<"x">>, <<" ", "x", "\n">>}

CliEnvs ==
  {CiEnv, [CiEnv EXCEPT !["CI_API_V4_URL"] = None],
   [CiEnv EXCEPT !["GITLAB_MR_PLAN_TOKEN"] = None],
   [CiEnv EXCEPT !["CI_PROJECT_ID"] = None]}

InitCli == InitWith(CliEnvs, {"asc"})

NextCli ==
  \/ \E p \in Procs, content \in CliStdin : MainRead(p, content)
  \/ \E p \in Procs, token \in {None, Str(<<"k">>)}, api_url \in {None, Str(Url2)} :
       MainConstruct(p, token, api_url)
  \/ \E p \in Procs, project_id \in {NoInt, SomeInt(8)}, mr_iid \in {NoInt, SomeInt(3)} :
       MainPost(p, project_id, mr_iid, SlotA)
  \/ \E p \in Procs : Remote(p)
  \/ \E p \in Procs : MainExit(p)

SpecCli == InitCli /\ [][NextCli]_vars

(***************************************************************************)
(* The four configuration fields together: explicit arguments that are     *)
(* absent, empty / zero, or given, over environments whose variables are   *)
(* unset, empty, or set.                                                   *)
(***************************************************************************)
ChainEnvs ==
  {[n \in EnvVars |->
      CASE n = "CI_API_V4_URL" -> u
        [] n = "GITLAB_MR_PLAN_TOKEN" -> t1
        [] n = "GITLAB_TOKEN" -> t2
        [] n = "CI_PROJECT_ID" -> pr
        [] n = "CI_MERGE_REQUEST_IID" -> mr] :
     u \in {None, Str(<<>>), Str(Url)}, t1 \in {None, Str(<<>>), Str(Token)},
     t2 \in {None, Str(<<"o">>)},
     pr \in {None, Str(<<>>), Str(<<"7">>), Str(<<"7", "x">>)},
     mr \in {None, Str(<<"1">>)}}

InitChain == InitWith(ChainEnvs, {"asc"})

NextChain ==
  \/ \E token \in {None, Str(<<>>), Str(<<"k">>)},
        api_url \in {None, Str(<<>>), Str(Url2)} :
       Construct(1, token, api_url, FALSE)
  \/ \E project_id \in {NoInt, SomeInt(0), SomeInt(8)},
        mr_iid \in {NoInt, SomeInt(0), SomeInt(3)} :
       Post(1, <<"x">>, project_id, mr_iid, SlotA)
  \/ Remote(1)

SpecChain == InitChain /\ [][NextChain]_vars

(***************************************************************************)
(* The marker codec alone: two slot names, each encoded by _marker         *)
(***************************************************************************)
\* plain names, names with quotes and backslashes, and names that mimic the
\* marker's delimiters or a whole marker
SlotNames ==
  {<<>>, <<"a">>, <<"b">>, <<"a", "b">>, <<"\"">>, <<"\\">>,
   <<"a", "\"">>, <<"a", "\\">>, <<"\\", "\"">>, <<"a", "\\", "\"">>,
   <<"a", "\"", " ", "-", "-", ">">>, <<"b", " ", "-", "-", ">">>,
   _marker(<<"b">>), _marker(<<"a", "\"">>)}

InitCodec ==
  /\ environ = CiEnv
  /\ order = "asc"
  /\ notes = InitialNotes
  /\ hist = [t \in Targets |-> <<>>]
  /\ gl = [p \in Procs |-> Unbuilt]
  /\ ctor = [p \in Procs |-> NoCtor]
  /\ pc = [p \in Procs |-> "idle"]
  /\ frame \in {[p \in Procs |->
                   [NoFrame EXCEPT !.comment_id = IF p = 1 THEN a ELSE b]] :
                 a \in SlotNames, b \in SlotNames}
  /\ err = [p \in Procs |-> "none"]
  /\ out = [p \in Procs |-> <<>>]
  /\ calls = [p \in Procs |-> <<>>]
  /\ cli = [p \in Procs |-> NoCli]

\* line 181: marker = _marker(comment_id)
MarkerOf(p) ==
  /\ frame[p].marker = <<>>
  /\ frame' = [frame EXCEPT ![p].marker = _marker(frame[p].comment_id)]
  /\ UNCHANGED <<environ, order, notes, hist, gl, ctor, pc, err, out, calls, cli>>

NextCodec == \E p \in Procs : MarkerOf(p)

SpecCodec == InitCodec /\ [][NextCodec]_vars

(***************************************************************************)
(* Properties of the upsert protocol (specification Spec).                 *)
(***************************************************************************)
Sep == <<"\n", "\n">>

\* positions, in listing order, of the notes of MR t whose body contains m
Holders(t, m) == {i \in 1..Len(notes[t]) : Contains(m, notes[t][i].body)}

First(S) == CHOOSE i \in S : \A j \in S : i <= j

SameSlot(h, s) == \A k \in 1..Len(h) : h[k][1] = s

\* C1: after any number n >= 1 of sequential successful posts to the same
\* (Target, comment_id), on an MR that started with no comment carrying the
\* slot's marker and was written by nobody else, exactly one comment carries
\* the marker and its body is the last call's content, a blank line, the marker.
C1_IdempotentUpsert ==
  \A p \in Procs, t \in Targets :
    ( /\ pc[p] = "done"
      /\ gl[p].kind = "client"
      /\ Target(p) = t
      /\ hist[t] # <<>>
      /\ SameSlot(hist[t], frame[p].comment_id) )
    => LET m == _marker(frame[p].comment_id)
           H == Holders(t, m)
       IN  /\ Cardinality(H) = 1
           /\ \A i \in H : notes[t][i].body = frame[p].content \o Sep \o m

\* three posts to one slot with differing content have completed
C1_Witness ==
  /\ pc[1] = "done"
  /\ Len(hist[<<7, 1>>]) = 3
  /\ SameSlot(hist[<<7, 1>>], SlotB)
  /\ hist[<<7, 1>>][1][2] # hist[<<7, 1>>][2][2]
  /\ hist[<<7, 1>>][2][2] # hist[<<7, 1>>][3][2]

\* a content that carries no marker of any slot
MarkerFree(content) == \A s \in Slots : ~Contains(_marker(s), content)

\* two different slots were each posted once to MR t, and nothing else
PostedOnceEach(t) ==
  /\ Len(hist[t]) = 2
  /\ hist[t][1][1] # hist[t][2][1]
  /\ \A p \in Procs : pc[p] \notin InFlight

\* C2 as stated (refuted): after one post to slot a and one to slot b on the
\* same MR, with any contents, there are two distinct comments, one carrying
\* the marker of a and not of b, the other the marker of b and not of a.
C2_SlotIsolation_AnyContent ==
  \A t \in Targets :
    PostedOnceEach(t) =>
      LET ma == _marker(hist[t][1][1])
          mb == _marker(hist[t][2][1])
      IN  \E i \in Holders(t, ma) \ Holders(t, mb) :
            \E j \in Holders(t, mb) \ Holders(t, ma) : i # j

\* C2 amended: when neither content carries the other slot's marker (and the
\* MR started with no comment carrying either marker), each slot's marker is
\* carried by exactly one comment, the two comments are distinct, and each
\* carries only its own marker and the body its post built.
C2_SlotIsolation ==
  \A t \in Targets :
    ( /\ PostedOnceEach(t)
      /\ ~Contains(_marker(hist[t][2][1]), hist[t][1][2])
      /\ ~Contains(_marker(hist[t][1][1]), hist[t][2][2]) )
    => LET ma == _marker(hist[t][1][1])
           mb == _marker(hist[t][2][1])
       IN  /\ Cardinality(Holders(t, ma)) = 1
           /\ Cardinality(Holders(t, mb)) = 1
           /\ Holders(t, ma) # Holders(t, mb)
           /\ \A i \in Holders(t, ma) : notes[t][i].body = hist[t][1][2] \o Sep \o ma
           /\ \A j \in Holders(t, mb) : notes[t][j].body = hist[t][2][2] \o Sep \o mb

\* slot b, then slot a, were posted once each to MR 1 with plain contents
C2_Witness ==
  /\ PostedOnceEach(<<7, 1>>)
  /\ hist[<<7, 1>>][1] = <<SlotB, <<"x">> >>
  /\ hist[<<7, 1>>][2] = <<SlotA, <<"y">> >>
  /\ Len(notes[<<7, 1>>]) = 4

\* number of marker occurrences, of any slot, in a body
MarkerCount(body) ==
  Cardinality({<<s, i>> \in Slots \X (0..Len(body)) :
                 /\ i + Len(_marker(s)) <= Len(body)
                 /\ SubSeq(body, i + 1, i + Len(_marker(s))) = _marker(s)})

\* the notes of MR t that hold exactly the body engine p built
Written(p, t) == {i \in 1..Len(notes[t]) : notes[t][i].body = frame[p].body}

\* C3 as stated (refuted): every body post writes, for any content, holds
\* exactly one marker occurrence, and the marker ends the body after a blank
\* line.
C3_ExactlyOneMarker_AnyContent ==
  \A p \in Procs :
    (pc[p] = "done" /\ gl[p].kind = "client") =>
      /\ Written(p, Target(p)) # {}
      /\ \A i \in Written(p, Target(p)) :
           LET b == notes[Target(p)][i].body
           IN  /\ EndsWith(b, Sep \o _marker(frame[p].comment_id))
               /\ MarkerCount(b) = 1

\* C3 amended: every body post writes is the content, a blank line and the
\* slot's marker as its final text, for every content; it holds exactly one
\* marker occurrence whenever the content itself carries no marker text.
C3_MarkerLast ==
  \A p \in Procs :
    (pc[p] = "done" /\ gl[p].kind = "client") =>
      /\ Written(p, Target(p)) # {}
      /\ \A i \in Written(p, Target(p)) :
           LET b == notes[Target(p)][i].body
               m == _marker(frame[p].comment_id)
           IN  /\ b = frame[p].content \o Sep \o m
               /\ EndsWith(b, Sep \o m)
               /\ SubSeq(b, 1, Len(b) - Len(Sep \o m)) = frame[p].content
               /\ MarkerFree(frame[p].content) => MarkerCount(b) = 1

\* a create and an update have each written a body with a plain content
C3_Witness ==
  /\ pc[1] = "done"
  /\ MarkerFree(frame[1].content)
  /\ calls[1][Len(calls[1])] = "save"
  /\ Len(hist[<<7, 1>>]) = 2
  /\ MarkerFree(hist[<<7, 1>>][1][2])

Count(seq, x) == Cardinality({k \in 1..Len(seq) : seq[k] = x})

Ids(all) == [i \in 1..Len(all) |-> all[i].id]

\* pages the listing of `all` has
Pages(all) == IF Len(all) = 0 THEN 1 ELSE (Len(all) + PerPage - 1) \div PerPage

\* one step of engine p obeys the update branch
UpdateStep(p) ==
  LET t == Target(p)
      m == _marker(frame[p].comment_id)
      H == Holders(t, m)
  IN  /\ (pc[p] = "list" /\ H # {}) => pc'[p] \in {"list", "save", "raised"}
      /\ (pc[p] = "list" /\ pc'[p] = "save") =>
           /\ H # {}
           /\ frame'[p].note = notes[t][First(H)].id
      /\ (pc[p] = "save" /\ pc'[p] = "done") =>
           /\ H # {}
           /\ notes'[t] = [notes[t] EXCEPT ![First(H)].body =
                             frame[p].content \o Sep \o m]
           /\ Ids(notes'[t]) = Ids(notes[t])
           /\ \A u \in Targets \ {t} : notes'[u] = notes[u]
           /\ Count(calls'[p], "create") = 0
           /\ Count(calls'[p], "save") = 1

\* C4: when a comment carries the slot's marker, post never creates; it
\* overwrites the body of the first such comment in listing order with
\* content, blank line, marker, keeps every identifier, and issues no create.
C4_UpdateBranch == [][\A p \in Procs : UpdateStep(p)]_vars

\* an update was persisted while two comments carried the slot's marker
C4_Witness ==
  /\ pc[1] = "done"
  /\ calls[1] # <<>>
  /\ calls[1][Len(calls[1])] = "save"
  /\ Cardinality(Holders(<<7, 1>>, frame[1].marker)) = 2

\* one step of engine p obeys the create branch
CreateStep(p) ==
  LET t == Target(p)
      m == _marker(frame[p].comment_id)
      new == [id |-> NoteCount + 1, body |-> frame[p].content \o Sep \o m]
  IN  /\ (pc[p] = "list" /\ pc'[p] = "create") =>
           /\ Holders(t, m) = {}
           /\ Count(calls'[p], "list") = Pages(notes[t])
      /\ (pc[p] = "create" /\ pc'[p] = "done") =>
           /\ Holders(t, m) = {}
           /\ notes'[t] \in {Append(notes[t], new), <<new>> \o notes[t]}
           /\ \A u \in Targets \ {t} : notes'[u] = notes[u]
           /\ Count(calls'[p], "create") = 1
           /\ Count(calls'[p], "save") = 0
      /\ Count(calls'[p], "create") > Count(calls[p], "create") =>
           pc[p] = "create"

\* C5: post issues a create only after every page of the listing was scanned
\* and no comment carries the slot's marker; it then issues exactly one create,
\* with body content, blank line, marker, and no update.
C5_CreateBranch == [][\A p \in Procs : CreateStep(p)]_vars

\* a create completed after a scan of two pages without a match
C5_Witness ==
  /\ pc[1] = "done"
  /\ calls[1] = <<"get_project", "get_mr", "list", "list", "create">>
  /\ Len(notes[<<7, 1>>]) = 4

(***************************************************************************)
(* Properties of construction and local mode (specification SpecCtor).     *)
(***************************************************************************)
Built(p) == gl[p].kind # "unbuilt"

\* what the constructor call of engine p was given
UrlGiven(p) == Truthy(ctor[p].api_url) \/ Truthy(ctor[p].env_url)

TokenGiven(p) ==
  \/ Truthy(ctor[p].token)
  \/ Truthy(ctor[p].env_plan_token)
  \/ Truthy(ctor[p].env_token)

\* the non-empty lines of a content: its maximal runs free of line breaks
Segments(content) ==
  {SubSeq(content, i, j) : <<i, j>> \in
     {ij \in (1..Len(content)) \X (1..Len(content)) :
        /\ ij[1] <= ij[2]
        /\ \A k \in ij[1]..ij[2] : ~IsBreak(content[k])
        /\ ij[1] = 1 \/ IsBreak(content[ij[1] - 1])
        /\ ij[2] = Len(content) \/ IsBreak(content[ij[2] + 1])}}

Printed(p, line) == \E k \in 1..Len(out[p]) : out[p][k] = <<"#", "#", " ">> \o line

\* C6: an engine constructed with local_fallback = TRUE and no resolvable API
\* URL is in local mode; none of its posts issues a remote call or raises,
\* whatever the token, target arguments and environment are, and the output of
\* a post holds every line of its content.
C6_LocalModeNoNetwork ==
  \A p \in Procs :
    (Built(p) /\ ctor[p].local_fallback /\ ~UrlGiven(p)) =>
      /\ gl[p].kind = "none"
      /\ calls[p] = <<>>
      /\ pc[p] \in {"idle", "done"}
      /\ err[p] = "none"
      /\ notes = InitialNotes
      /\ pc[p] = "done" =>
           \A line \in Segments(frame[p].content) : Printed(p, line)

\* a local post of two lines completed with no token, no target and an API URL
\* that appeared in the environment after construction
C6_Witness ==
  /\ gl[1].kind = "none"
  /\ pc[1] = "done"
  /\ ~TokenGiven(1)
  /\ ~frame[1].project_id.set /\ ~frame[1].raw_project.set
  /\ Truthy(environ["CI_API_V4_URL"])
  /\ frame[1].content = <<"r", "\r", "\n", "s", "\n">>
  /\ Len(out[1]) = 4

\* the mode of a built engine as a function of its constructor call
ModeMatchesCtor(p) ==
  /\ gl[p].kind = "none" <=> (ctor[p].local_fallback /\ ~UrlGiven(p))
  /\ UrlGiven(p) =>
       \/ gl[p].kind = "client" /\ TokenGiven(p)
       \/ gl[p].kind = "raised" /\ err[p] = ErrNoToken /\ ~TokenGiven(p)
  /\ (gl[p].kind = "client" /\ pc[p] = "done") =>
       /\ calls[p] # <<>>
       /\ calls[p][Len(calls[p])] \in {"save", "create"}
       /\ out[p] = <<>>

\* C7: the engine is in local mode if and only if, at construction, no API
\* URL resolved and local_fallback was true; with a resolvable URL
\* local_fallback has no effect (posts go to the remote, a missing token is an
\* error); and the mode never changes after construction.
C7_LocalModeOnlyWhenOptedIn ==
  /\ [](\A p \in Procs : Built(p) => ModeMatchesCtor(p))
  /\ [][\A p \in Procs : Built(p) => gl'[p] = gl[p]]_vars

\* an engine built with local_fallback = TRUE and a resolvable URL completed a
\* remote post
C7_Witness ==
  /\ gl[1].kind = "client"
  /\ ctor[1].local_fallback
  /\ pc[1] = "done"
  /\ calls[1] = <<"get_project", "get_mr", "list", "create">>

\* C8: construction raises the no-API-URL error when no URL resolves and
\* local_fallback is false, and the no-token error when a URL resolves but no
\* token does (argument, preferred variable, deprecated alias); then no engine
\* exists: it never posts and issues no remote call.
C8_ConstructionErrors ==
  \A p \in Procs :
    Built(p) =>
      /\ (~UrlGiven(p) /\ ~ctor[p].local_fallback) =>
           (gl[p].kind = "raised" /\ err[p] = ErrNoUrl)
      /\ (UrlGiven(p) /\ ~TokenGiven(p)) =>
           (gl[p].kind = "raised" /\ err[p] = ErrNoToken)
      /\ gl[p].kind = "raised" =>
           /\ pc[p] = "idle"
           /\ calls[p] = <<>>
           /\ frame[p] = NoFrame
           /\ notes = InitialNotes

\* construction failed for want of a token although local_fallback was set and
\* an empty token was passed
C8_Witness ==
  /\ gl[1].kind = "raised"
  /\ err[1] = ErrNoToken
  /\ ctor[1].local_fallback
  /\ ctor[1].token = Str(<<>>)
  /\ ctor[1].api_url = Str(Url2)

(***************************************************************************)
(* Properties of target resolution (specification SpecTarget).             *)
(***************************************************************************)
\* engine p is in remote mode and has been asked to post
RemotePost(p) == gl[p].kind = "client" /\ pc[p] # "idle"

\* an id omitted as an argument and absent or empty in the environment
Missing(arg, raw) == ~arg.set /\ ~Truthy(raw)

\* an id taken from an environment value that is not a number
HasJunk(s) == \E i \in 1..Len(s) : ~IsDigit(s[i]) /\ s[i] \notin {" ", "+", "-"}

NonNumeric(arg, raw) == ~arg.set /\ Truthy(raw) /\ HasJunk(raw.v)

MissingProject(p) == Missing(frame[p].project_id, frame[p].raw_project)

MissingMr(p) == Missing(frame[p].mr_iid, frame[p].raw_mr)

\* C9 as stated (refuted): in remote mode, a post with a missing project id
\* or MR id raises, before any remote call, a configuration error that names
\* a missing field.
C9_MissingTarget_NamesField ==
  \A p \in Procs :
    (RemotePost(p) /\ (MissingProject(p) \/ MissingMr(p))) =>
      /\ pc[p] = "raised"
      /\ calls[p] = <<>>
      /\ \/ MissingProject(p) /\ err[p] = ErrNoProject
         \/ MissingMr(p) /\ err[p] = ErrNoMr

\* C9 amended: in remote mode, a post with a missing project id or MR id
\* raises a configuration error before any remote call; the error names the
\* missing project id, or names the missing MR id unless the project id taken
\* from the environment is non-numeric, in which case it is that conversion's
\* error.
C9_MissingTarget ==
  \A p \in Procs :
    (RemotePost(p) /\ (MissingProject(p) \/ MissingMr(p))) =>
      /\ pc[p] = "raised"
      /\ calls[p] = <<>>
      /\ err[p] \in ConfigErrors
      /\ MissingProject(p) => err[p] = ErrNoProject
      /\ (~MissingProject(p)
            /\ ~NonNumeric(frame[p].project_id, frame[p].raw_project))
           => err[p] = ErrNoMr
      /\ NonNumeric(frame[p].project_id, frame[p].raw_project) => err[p] = ErrInt

\* a post with an explicit project id and an empty CI_MERGE_REQUEST_IID raised
\* the missing-MR error without any remote call
C9_Witness ==
  /\ RemotePost(1)
  /\ pc[1] = "raised"
  /\ err[1] = ErrNoMr
  /\ frame[1].project_id = SomeInt(7)
  /\ ~frame[1].mr_iid.set
  /\ frame[1].raw_mr = Str(<<>>)
  /\ calls[1] = <<>>

\* engine p has issued, or is about to issue, a remote call
ReachedRemote(p) == pc[p] \in InFlight \/ calls[p] # <<>>

\* C10 as stated (refuted): whenever a post in remote mode reaches a remote
\* call both ids are positive integers.
C10_PositiveIds ==
  \A p \in Procs :
    (RemotePost(p) /\ ReachedRemote(p)) => (frame[p].pid > 0 /\ frame[p].iid > 0)

\* the integer an id resolves to
Resolved(arg, raw) == IF arg.set THEN arg.v ELSE int(raw.v).v

\* C10 amended: whenever a post in remote mode reaches a remote call, both
\* ids are the integers given (the explicit argument, else the number in the
\* environment variable); a non-numeric environment value that is consulted
\* raises a configuration error instead of a remote call; zero and negative
\* ids are not rejected: they reach the collaborator.
C10_TargetResolution ==
  \A p \in Procs :
    RemotePost(p) =>
      LET f == frame[p]
          bad == \/ MissingProject(p) \/ MissingMr(p)
                 \/ NonNumeric(f.project_id, f.raw_project)
                 \/ NonNumeric(f.mr_iid, f.raw_mr)
      IN  /\ bad => (pc[p] = "raised" /\ err[p] \in ConfigErrors /\ calls[p] = <<>>)
          /\ ~bad => /\ ReachedRemote(p)
                     /\ err[p] \notin ConfigErrors
                     /\ f.pid = Resolved(f.project_id, f.raw_project)
                     /\ f.iid = Resolved(f.mr_iid, f.raw_mr)
          /\ ReachedRemote(p) => ~bad

\* the project id -3 from the environment reached the collaborator, which
\* answered not found
C10_Witness ==
  /\ RemotePost(1)
  /\ pc[1] = "raised"
  /\ err[1] = ErrNotFound
  /\ ~frame[1].project_id.set
  /\ frame[1].pid = 0 - 3
  /\ calls[1] = <<"get_project">>

(***************************************************************************)
(* C11-C13: the remote calls of one invocation                             *)
(***************************************************************************)
RemoteErrors == {ErrNotFound, ErrTransport}

RemoteWrites == {"save", "create"}

FailedStep(p) == pc[p] \in InFlight /\ pc'[p] = "raised"

\* C11: when a remote call of a post fails (project or MR fetch, a list page,
\* the update or the create), the invocation ends raising that failure: the
\* failing call is the last call of the invocation, the failing step changes
\* no comment, no write was issued before it, and nothing is called
\* afterwards until the next invocation starts.
C11_FailurePropagates ==
  /\ [](\A p \in Procs :
          err[p] \in RemoteErrors =>
            /\ pc[p] = "raised"
            /\ calls[p] # <<>>
            /\ \A k \in 1..(Len(calls[p]) - 1) : calls[p][k] \notin RemoteWrites)
  /\ [][\A p \in Procs :
          FailedStep(p) =>
            /\ err'[p] \in RemoteErrors
            /\ calls'[p] = Append(calls[p], pc[p])
            /\ notes' = notes
            /\ hist' = hist]_vars
  /\ [][\A p \in Procs :
          pc[p] = "raised" => (calls'[p] = calls[p] \/ calls'[p] = <<>>)]_vars

\* an update that failed: the note found by the scan still has its old body
C11_Witness ==
  /\ pc[1] = "raised"
  /\ err[1] = ErrTransport
  /\ calls[1] = <<"get_project", "get_mr", "list", "list", "save">>
  /\ Written(1, <<7, 1>>) = {}
  /\ Holders(<<7, 1>>, frame[1].marker) # {}

Shape(c) ==
  \A k \in 1..Len(c) :
    /\ (c[k] = "get_project") <=> (k = 1)
    /\ (c[k] = "get_mr") <=> (k = 2)
    /\ c[k] \in RemoteWrites => (k = Len(c) /\ k >= 4 /\ c[k - 1] = "list")
    /\ c[k] \in {"get_project", "get_mr", "list"} \cup RemoteWrites

\* C12: the remote calls of one invocation come in the order project fetch,
\* MR fetch, list pages, then one update or one create.  A list page is
\* requested only after the MR was fetched successfully, a write only after
\* at least one list page, and an invocation that returns normally has issued
\* exactly one write, as its last call.
C12_CallOrdering ==
  \A p \in Procs :
    /\ Shape(calls[p])
    /\ Count(calls[p], "list") > 0 => Target(p) \in Targets
    /\ pc[p] \in {"save", "create"} =>
         /\ Count(calls[p], "save") + Count(calls[p], "create") = 0
         /\ calls[p][Len(calls[p])] = "list"
    /\ (pc[p] = "done" /\ gl[p].kind = "client") =>
         /\ Count(calls[p], "save") + Count(calls[p], "create") = 1
         /\ calls[p][Len(calls[p])] \in RemoteWrites

C12_Witness ==
  /\ pc[1] = "done"
  /\ calls[1] = <<"get_project", "get_mr", "list", "list", "save">>
  /\ Written(1, <<7, 1>>) # {}

PageOf(i) == ((i - 1) \div PerPage) + 1

LazyScanStep(p) ==
  LET t == Target(p)
      H == Holders(t, frame[p].marker)
  IN  /\ (pc[p] = "list" /\ H # {} /\ ~FailedStep(p)) =>
           /\ frame'[p].pulled <= First(H)
           /\ Count(calls'[p], "list") <= PageOf(First(H))
      /\ (pc[p] = "list" /\ pc'[p] = "save") =>
           /\ frame'[p].pulled = First(H)
           /\ frame'[p].note = notes[t][First(H)].id
           /\ Count(calls'[p], "list") = PageOf(First(H))
      /\ pc[p] = "save" =>
           /\ frame'[p].pulled = frame[p].pulled
           /\ Count(calls'[p], "list") = Count(calls[p], "list")

\* C13: the scan takes comments from the paginated listing one at a time and
\* stops at the first comment whose body contains the marker: when the scan
\* ends with a match it has taken exactly the comments up to the first
\* holder and requested exactly the pages up to the holder's page, and no
\* comment or page is requested after the match.
C13_LazyScan == [][\A p \in Procs : LazyScanStep(p)]_vars

\* the newest-first listing has two pages; the match is its first comment and
\* the second page is never requested
C13_Witness ==
  /\ pc[1] = "done"
  /\ calls[1] = <<"get_project", "get_mr", "list", "save">>
  /\ frame[1].pulled = 1
  /\ Len(notes[<<7, 1>>]) = 4

(***************************************************************************)
(* C14, C18, C19: uncoordinated invocations (specification SpecConc)       *)
(***************************************************************************)
HoldersIn(all, m) == {i \in 1..Len(all) : Contains(m, all[i].body)}

WriteStep(p) == pc[p] \in RemoteWrites /\ pc'[p] = "done"

\* no remote write completed since the invocation of p began
RanAlone(p) == Writes = frame[p].start

RaceStep(p) ==
  LET t == Target(p)
      m == frame[p].marker
  IN  (pc[p] = "create" /\ pc'[p] = "done") =>
        /\ Len(notes'[t]) = Len(notes[t]) + 1
        /\ Cardinality(HoldersIn(notes'[t], m)) = Cardinality(Holders(t, m)) + 1
        /\ Holders(t, m) # {} => ~RanAlone(p)

\* C14: an invocation whose scan ended without a match creates a comment
\* without looking again.  If no write intervened the slot is still free; if
\* another invocation created a comment with the same marker in between, the
\* create adds a second comment with that marker.  Two concurrent posts to
\* the same free slot of one MR can therefore both scan before either
\* creates and leave two comments carrying the same marker.
C14_ConcurrentDuplicate ==
  /\ [](\A p \in Procs :
          (pc[p] = "create" /\ RanAlone(p)) =>
            Holders(Target(p), frame[p].marker) = {})
  /\ [][\A p \in Procs : RaceStep(p)]_vars

\* both jobs posted to slot a of the MR, whose comments carried no marker:
\* both scanned, both created, and the MR holds two comments with a's marker
C14_Witness ==
  /\ pc[1] = "done" /\ pc[2] = "done"
  /\ calls[1] = <<"get_project", "get_mr", "list", "create">>
  /\ calls[2] = calls[1]
  /\ frame[1].comment_id = SlotA /\ frame[2].comment_id = SlotA
  /\ Len(hist[<<7, 1>>]) = 2
  /\ Cardinality(Holders(<<7, 1>>, _marker(SlotA))) = 2

\* notes of `old` that are gone from `new`, and notes whose body differs
Deleted(old, new) ==
  {i \in 1..Len(old) : \A j \in 1..Len(new) : new[j].id # old[i].id}

Changed(old, new) ==
  {i \in 1..Len(old) :
     \E j \in 1..Len(new) : new[j].id = old[i].id /\ new[j].body # old[i].body}

Added(old, new) ==
  {j \in 1..Len(new) : \A i \in 1..Len(old) : old[i].id # new[j].id}

OnePlace(p) ==
  LET t == Target(p)
      old == notes[t]
      new == notes'[t]
  IN  /\ \A u \in Targets \ {t} : notes'[u] = notes[u]
      /\ Deleted(old, new) = {}
      /\ Len(new) = Len(old) + Cardinality(Added(old, new))
      /\ Cardinality(Added(old, new)) + Cardinality(Changed(old, new)) <= 1
      /\ Cardinality(Added(old, new)) = IF pc[p] = "create" THEN 1 ELSE 0
      /\ \A i \in Changed(old, new) : old[i].id = frame[p].note

FrameStep(p) ==
  /\ WriteStep(p) => OnePlace(p)
  /\ (pc[p] = "list" /\ pc'[p] = "save") =>
       \E i \in Holders(Target(p), frame[p].marker) :
         notes[Target(p)][i].id = frame'[p].note

\* C18 as stated: a write of a post changes the comments in one place,
\* deletes nothing, adds at most one comment, and overwrites a comment only
\* if its body contained the slot's marker immediately before the write.
C18_Frame_AtWrite ==
  [][/\ notes' # notes => \E p \in Procs : WriteStep(p)
     /\ \A p \in Procs :
          /\ FrameStep(p)
          /\ WriteStep(p) =>
               \A i \in Changed(notes[Target(p)], notes'[Target(p)]) :
                 Contains(frame[p].marker, notes[Target(p)][i].body)]_vars

\* C18 (amended): a write of a post changes the comments in one place,
\* deletes nothing, adds at most one comment, and leaves every other comment's
\* id and body alone.  The comment it overwrites is the one its scan chose,
\* whose body contained the slot's marker when the scan read it; that is
\* still so immediately before the write when no other write intervened.
C18_Frame ==
  [][/\ notes' # notes => \E p \in Procs : WriteStep(p)
     /\ \A p \in Procs :
          /\ FrameStep(p)
          /\ (WriteStep(p) /\ RanAlone(p)) =>
               \A i \in Changed(notes[Target(p)], notes'[Target(p)]) :
                 Contains(frame[p].marker, notes[Target(p)][i].body)]_vars

\* job 1 updated the comment its scan had chosen for slot a after job 2 had
\* rewritten it for slot b
C18_Witness ==
  /\ pc[1] = "done"
  /\ calls[1][Len(calls[1])] = "save"
  /\ frame[1].comment_id = SlotA
  /\ frame[2].comment_id = SlotB
  /\ pc[2] = "done"
  /\ frame[2].note = frame[1].note
  /\ Writes = frame[1].start + 2

NeverHealedStep(p) ==
  LET t == Target(p)
      m == frame[p].marker
      H == Holders(t, m)
  IN  WriteStep(p) =>
        /\ Cardinality(HoldersIn(notes'[t], m)) >= Cardinality(H)
        /\ (Cardinality(H) >= 2 /\ RanAlone(p)) =>
             /\ pc[p] = "save"
             /\ notes'[t] = [notes[t] EXCEPT ![First(H)].body = frame[p].body]
             /\ HoldersIn(notes'[t], m) = H

\* C19: a write of a post to slot s never lowers the number of comments
\* that contain s's marker; and when the MR holds two or more such comments,
\* a post to s that runs without interference updates only the first of them
\* in listing order and leaves the others as they are, so the duplicates
\* stay.
C19_NeverHealed == [][\A p \in Procs : NeverHealedStep(p)]_vars

\* after the race left two comments for slot a, a third post to a has
\* updated one of them; two comments still carry the marker
C19_Witness ==
  /\ pc[1] = "done"
  /\ calls[1][Len(calls[1])] = "save"
  /\ Writes = frame[1].start + 1
  /\ Len(hist[<<7, 1>>]) = 3
  /\ SameSlot(hist[<<7, 1>>], SlotA)
  /\ Cardinality(Holders(<<7, 1>>, _marker(SlotA))) = 2

(***************************************************************************)
(* C17: the command line (specification SpecCli)                           *)
(***************************************************************************)
Blank(content) == \A i \in 1..Len(content) : content[i] \in {" ", "\t", "\n", "\r"}

EngineRaised(p) == gl[p].kind = "raised" \/ pc[p] = "raised"

CliOutcome(p) ==
  /\ cli[p].state = "running" => ~Blank(cli[p].content)
  /\ cli[p].state = "exited" =>
       /\ cli[p].status \in {0, 1, 2}
       /\ cli[p].status = 0 =>
            /\ ~EngineRaised(p)
            /\ err[p] = "none"
            /\ pc[p] = "done"
            /\ calls[p][Len(calls[p])] \in RemoteWrites
       /\ EngineRaised(p) =>
            /\ cli[p].status = 1
            /\ err[p] # "none"
            /\ cli[p].stderr = <<"error: ", err[p]>>
       /\ cli[p].status = 2 =>
            /\ gl[p] = Unbuilt
            /\ pc[p] = "idle"
            /\ calls[p] = <<>>
            /\ cli[p].stderr # <<>>
       /\ gl[p].kind = "unbuilt" => cli[p].status = 2

\* C17: an exception of the constructor or of post is printed to stderr and
\* the run exits with status 1; a run exits with status 0 only after post
\* returned normally; with empty or whitespace-only stdin the run exits with
\* an error status without constructing the engine or calling the remote
\* side; and after an exception or an exit the run does nothing more.
C17_CliErrorSurface ==
  /\ [](\A p \in Procs : CliOutcome(p))
  /\ [][\A p \in Procs :
          (EngineRaised(p) \/ cli[p].state = "exited") =>
            /\ <<gl'[p], pc'[p], calls'[p], err'[p]>> = <<gl[p], pc[p], calls[p], err[p]>>
            /\ cli'[p] = cli[p] \/ (cli[p].state = "running" /\ cli'[p].state = "exited")]_vars

\* the MR named on the command line does not exist: exit status 1
C17_Witness ==
  /\ cli[1].state = "exited"
  /\ cli[1].status = 1
  /\ cli[1].stderr = <<"error: ", ErrNotFound>>
  /\ calls[1] = <<"get_project", "get_mr">>

(***************************************************************************)
(* C15: the marker codec (specification SpecCodec)                         *)
(***************************************************************************)
Encoded(p) == frame[p].marker # <<>>

\* C15: for two different slot names a and b, the marker of b is not a
\* substring of the marker of a (nor the other way round); so the two
\* markers differ, and a comment whose body is a's marker alone is not
\* matched by the scan for slot b.
C15_NoFalseContainment ==
  (Encoded(1) /\ Encoded(2) /\ frame[1].comment_id # frame[2].comment_id) =>
    /\ ~Contains(frame[2].marker, frame[1].marker)
    /\ ~Contains(frame[1].marker, frame[2].marker)
    /\ frame[1].marker # frame[2].marker
    /\ Scan(frame[2].marker, <<[id |-> 1, body |-> frame[1].marker]>>) = 0

\* slot name a is the text of slot b's marker
C15_Witness ==
  /\ Encoded(1) /\ Encoded(2)
  /\ frame[2].comment_id = <<"b">>
  /\ frame[1].comment_id = frame[2].marker

(***************************************************************************)
(* C16: the fallback chains (specification SpecChain)                      *)
(***************************************************************************)
ApiSuffix == <<"/", "a", "p", "i", "/", "v", "4">>

NonEmpty(x) == x.set /\ x.v # <<>>

FirstNonEmpty(links) ==
  LET S == {i \in 1..Len(links) : NonEmpty(links[i])}
  IN  IF S = {} THEN None ELSE links[First(S)]

UrlChain(p) == <<ctor[p].api_url, ctor[p].env_url>>

TokenChain(p) == <<ctor[p].token, ctor[p].env_plan_token, ctor[p].env_token>>

ResolutionError(p) == RemotePost(p) /\ pc[p] = "raised" /\ calls[p] = <<>>

\* the two tests for "supplied" found in the code: not None, and truthy
Rules == {"not none", "truthy"}

GivenStr(r, x) == IF r = "not none" THEN x.set ELSE x.set /\ x.v # <<>>

GivenInt(r, x) == IF r = "not none" THEN x.set ELSE x.set /\ x.v # 0

ExplicitFirst(r, p) ==
  /\ (gl[p].kind = "client" /\ GivenStr(r, ctor[p].api_url)) =>
       gl[p].url = removesuffix(ctor[p].api_url.v, ApiSuffix)
  /\ (gl[p].kind = "client" /\ GivenStr(r, ctor[p].token)) =>
       gl[p].token = ctor[p].token.v
  /\ (RemotePost(p) /\ ~GivenInt(r, frame[p].project_id) /\ ReachedRemote(p)) =>
       /\ NonEmpty(frame[p].raw_project)
       /\ frame[p].pid = int(frame[p].raw_project.v).v
  /\ (RemotePost(p) /\ ~GivenInt(r, frame[p].mr_iid) /\ ReachedRemote(p)) =>
       /\ NonEmpty(frame[p].raw_mr)
       /\ frame[p].iid = int(frame[p].raw_mr.v).v
  /\ (RemotePost(p) /\ GivenInt(r, frame[p].project_id)) =>
       frame[p].pid = frame[p].project_id.v

ErrorOnlyWhenEmpty(p) ==
  /\ (gl[p].kind = "raised" /\ err[p] = ErrNoUrl) => ~FirstNonEmpty(UrlChain(p)).set
  /\ (gl[p].kind = "raised" /\ err[p] = ErrNoToken) => ~FirstNonEmpty(TokenChain(p)).set
  /\ ResolutionError(p) =>
       \/ ~frame[p].project_id.set /\ ~NonEmpty(frame[p].raw_project)
       \/ ~frame[p].mr_iid.set /\ ~NonEmpty(frame[p].raw_mr)

\* C16 as stated: one rule for "not supplied" describes all four fields (an
\* explicit value that is supplied is used, otherwise the environment), and
\* constructor and target resolution raise only when every link of the
\* field's chain is empty.
C16_UniformChain ==
  \A p \in Procs :
    /\ \E r \in Rules : ExplicitFirst(r, p)
    /\ ErrorOnlyWhenEmpty(p)

ChainOfCtor(p) ==
  LET u == FirstNonEmpty(UrlChain(p))
      t == FirstNonEmpty(TokenChain(p))
  IN  /\ gl[p].kind = "client" <=> (u.set /\ t.set)
      /\ gl[p].kind = "client" =>
           /\ gl[p].url = removesuffix(u.v, ApiSuffix)
           /\ gl[p].token = t.v
      /\ gl[p].kind = "none" <=> (~u.set /\ ctor[p].local_fallback)
      /\ gl[p].kind = "raised" =>
           /\ err[p] = ErrNoUrl <=> ~u.set
           /\ err[p] = ErrNoToken <=> (u.set /\ ~t.set)

ChainOfTarget(p) ==
  /\ frame[p].project_id.set => frame[p].pid = frame[p].project_id.v
  /\ ReachedRemote(p) =>
       /\ frame[p].pid = Resolved(frame[p].project_id, frame[p].raw_project)
       /\ frame[p].iid = Resolved(frame[p].mr_iid, frame[p].raw_mr)
       /\ frame[p].mr_iid.set \/ NonEmpty(frame[p].raw_mr)
       /\ frame[p].project_id.set \/ NonEmpty(frame[p].raw_project)
  /\ ResolutionError(p) =>
       /\ err[p] \in {ErrNoProject, ErrNoMr, ErrInt}
       /\ err[p] = ErrNoProject =>
            ~frame[p].project_id.set /\ ~NonEmpty(frame[p].raw_project)
       /\ err[p] = ErrNoMr =>
            ~frame[p].mr_iid.set /\ ~NonEmpty(frame[p].raw_mr)
       /\ err[p] = ErrInt =>
            \/ NonNumeric(frame[p].project_id, frame[p].raw_project)
            \/ NonNumeric(frame[p].mr_iid, frame[p].raw_mr)

\* C16 (amended): token and API URL take the first link of their chain
\* (explicit argument, primary variable, and for the token the deprecated
\* variable) that is neither None nor empty, and the constructor raises when
\* no such link exists (for the URL unless local fallback was requested).
\* Project id and MR id take the explicit argument whenever it is not None, 0
\* included, and otherwise the environment variable, raising when it is
\* unset or empty and also when it is not an integer literal.
C16_FallbackChain ==
  \A p \in Procs :
    /\ Built(p) => ChainOfCtor(p)
    /\ RemotePost(p) => ChainOfTarget(p)

\* an empty api_url argument gave way to the environment's URL and the token
\* came from the deprecated variable, while the explicit project id 0 was
\* used although CI_PROJECT_ID is set
C16_Witness ==
  /\ ctor[1].api_url = Str(<<>>)
  /\ gl[1] = Gitlab(<<"h">>, <<"o">>)
  /\ frame[1].project_id = SomeInt(0)
  /\ frame[1].raw_project = Str(<<"7">>)
  /\ calls[1] = <<"get_project">>
  /\ err[1] = ErrNotFound

====
